---- MODULE Spec2Model ----
(***************************************************************************)
(* Model of funx's runtime values and types (src/src/values.rs): the Type  *)
(* tags with their equality and cast, the V values with typ, the four      *)
(* arithmetic operators, rendering and equality.                           *)
(*                                                                         *)
(* Every operation of the file is a pure function.  The state machine is   *)
(* a caller that invokes one operation at a time on operands drawn from    *)
(* bounded sets and records the call and its outcome.  The calls share no  *)
(* state, so a behaviour is one call from the initial state.               *)
(*                                                                         *)
(* Encoding.  A Type is a tuple: <<tag>> for the eleven unit variants and  *)
(* <<"Union", members>> for Union(Vec<Type>).  A V is a tuple whose first  *)
(* element is the variant name.  i64 is scaled down to IntBits bits, two's *)
(* complement.  An f64 is <<class, sign, num, den>>: class "nan", "inf" or *)
(* "fin", sign 1 or -1, and for a finite value the magnitude num/den in    *)
(* lowest terms (so 0.0 and -0.0 are distinct encodings, as in IEEE 754).  *)
(* Finite results are kept exact: the rounding of f64 is not modelled.     *)
(***************************************************************************)
EXTENDS Integers, Sequences, FiniteSets, TLC

VARIABLES op, args, ret, overflow_checks

vars == <<op, args, ret, overflow_checks>>

(* ------------------------------ bounds -------------------------------- *)

\* width of the scaled-down i64
IntBits == 3

\* longest member list of the Union operands
MaxUnionLen == 3

(* ------------------------------- Type --------------------------------- *)

TyUndefined == <<"Undefined">>
TyAny == <<"Any">>
TyInt == <<"Int">>
TyFloat == <<"Float">>
TyBool == <<"Bool">>
TyString == <<"String">>
TyNativFunction == <<"NativFunction">>
TyFunction == <<"Function">>
TyAddr == <<"Addr">>
TyClosure == <<"Closure">>
TyType == <<"Type">>

Union(types) == <<"Union", types>>

IsUnion(t) == t[1] = "Union"

AtomicTypes ==
  {TyUndefined, TyAny, TyInt, TyFloat, TyBool, TyString, TyNativFunction, TyFunction,
   TyAddr, TyClosure, TyType}

RECURSIVE TypeEq(_, _)
RECURSIVE Contains(_, _)

\* the final match of Type::eq: a unit variant equals itself only
AtomicEq(self, other) ==
  /\ self[1] = other[1]
  /\ self[1] \in {"Undefined", "Int", "Float", "Bool", "String", "Addr",
                  "Closure", "NativFunction", "Function", "Type"}

\* Union against Union, as a wrong direction would compute it
UnionEqUnionOtherSide(types, other_types) ==
  \A i \in 1..Len(other_types) : Contains(types, other_types[i])

\* Union against Union: every member of self is contained in other
UnionEqUnion(types, other_types) ==
  \A i \in 1..Len(types) : Contains(other_types, types[i])

\* Type::eq.  The Union/Union loop nested under `other` being a Union is
\* unreachable: a Union `self` has returned before.
TypeEq(self, other) ==
  IF self = TyAny THEN TRUE
  ELSE IF other = TyAny THEN TRUE
  ELSE IF IsUnion(self) THEN
    IF IsUnion(other) THEN UnionEqUnion(self[2], other[2])
    ELSE Contains(self[2], other)
  ELSE IF IsUnion(other) THEN Contains(other[2], self)
  ELSE AtomicEq(self, other)

\* <[Type]>::contains: some element e with e == x
Contains(s, x) == \E i \in 1..Len(s) : TypeEq(s[i], x)

(* ------------------------------- i64 ---------------------------------- *)

IntMin == -(2 ^ (IntBits - 1))
IntMax == 2 ^ (IntBits - 1) - 1
Ints == IntMin..IntMax

\* reduction modulo 2^IntBits into the signed range
Wrap(x) == ((x - IntMin) % (2 ^ IntBits)) + IntMin

Abs(x) == IF x < 0 THEN -x ELSE x

(* ------------------------------- f64 ---------------------------------- *)

RECURSIVE Gcd(_, _)
Gcd(a, b) == IF b = 0 THEN a ELSE Gcd(b, a % b)

NaN == <<"nan", 1, 0, 1>>
Inf(s) == <<"inf", s, 0, 1>>
Fin(s, n, d) == LET g == Gcd(n, d) IN <<"fin", s, n \div g, d \div g>>

IsNaN(x) == x[1] = "nan"
IsInf(x) == x[1] = "inf"
IsZero(x) == x[1] = "fin" /\ x[3] = 0

\* f64 + f64
FAdd(x, y) ==
  IF IsNaN(x) \/ IsNaN(y) THEN NaN
  ELSE IF IsInf(x) THEN (IF IsInf(y) /\ y[2] # x[2] THEN NaN ELSE x)
  ELSE IF IsInf(y) THEN y
  ELSE LET num == x[2] * x[3] * y[4] + y[2] * y[3] * x[4]
           den == x[4] * y[4]
       IN IF num = 0
          THEN Fin(IF x[2] = -1 /\ y[2] = -1 THEN -1 ELSE 1, 0, 1)
          ELSE Fin(IF num < 0 THEN -1 ELSE 1, Abs(num), den)

FNeg(x) == IF IsNaN(x) THEN NaN ELSE <<x[1], -x[2], x[3], x[4]>>

\* f64 - f64
FSub(x, y) == FAdd(x, FNeg(y))

\* f64 * f64
FMul(x, y) ==
  IF IsNaN(x) \/ IsNaN(y) THEN NaN
  ELSE IF IsInf(x) \/ IsInf(y)
       THEN (IF IsZero(x) \/ IsZero(y) THEN NaN ELSE Inf(x[2] * y[2]))
  ELSE Fin(x[2] * y[2], x[3] * y[3], x[4] * y[4])

\* f64 / f64: a zero divisor gives an infinity, or NaN for 0/0
FDiv(x, y) ==
  IF IsNaN(x) \/ IsNaN(y) THEN NaN
  ELSE IF IsInf(x) THEN (IF IsInf(y) THEN NaN ELSE Inf(x[2] * y[2]))
  ELSE IF IsInf(y) THEN Fin(x[2] * y[2], 0, 1)
  ELSE IF IsZero(y) THEN (IF IsZero(x) THEN NaN ELSE Inf(x[2] * y[2]))
  ELSE Fin(x[2] * y[2], x[3] * y[4], x[4] * y[3])

\* f64 == f64: NaN equals nothing, 0.0 equals -0.0
FEq(x, y) ==
  IF IsNaN(x) \/ IsNaN(y) THEN FALSE
  ELSE IF IsZero(x) /\ IsZero(y) THEN TRUE
  ELSE x = y

\* i64 as f64 (exact at this width)
IntToFloat(i) == Fin(IF i < 0 THEN -1 ELSE 1, Abs(i), 1)

\* f64 as i64: truncates toward zero, saturates, NaN gives 0
FloatToInt(x) ==
  IF IsNaN(x) THEN 0
  ELSE IF IsInf(x) THEN (IF x[2] = 1 THEN IntMax ELSE IntMin)
  ELSE LET q == x[2] * (x[3] \div x[4])
       IN IF q > IntMax THEN IntMax ELSE IF q < IntMin THEN IntMin ELSE q

\* bool as i64
BoolToInt(b) == IF b THEN 1 ELSE 0

(* -------------------------------- V ----------------------------------- *)

VNull == <<"Null">>
Wirldcard == <<"Wirldcard">>
VInt(v) == <<"Int", v>>
VFloat(v) == <<"Float", v>>
VBool(v) == <<"Bool", v>>
VString(v) == <<"String", v>>
VAddr(v) == <<"Addr", v>>
VClosure(node) == <<"Closure", node>>
VNativFunction(params, f) == <<"NativFunction", params, f>>
VFunction(params, body) == <<"Function", params, body>>
VType(t) == <<"Type", t>>

\* V::typ
Typ(self) ==
  CASE self[1] = "Null" -> TyUndefined
    [] self[1] = "Wirldcard" -> TyAny
    [] self[1] = "Int" -> TyInt
    [] self[1] = "Float" -> TyFloat
    [] self[1] = "Bool" -> TyBool
    [] self[1] = "String" -> TyString
    [] self[1] = "Addr" -> TyAddr
    [] self[1] = "Closure" -> TyClosure
    [] self[1] = "NativFunction" -> TyNativFunction
    [] self[1] = "Function" -> TyFunction
    [] self[1] = "Type" -> TyType

(* ----------------------------- rendering ------------------------------ *)

Digit(d) == <<"0", "1", "2", "3", "4", "5", "6", "7", "8", "9">>[d + 1]

RECURSIVE NatToString(_)
NatToString(n) ==
  IF n < 10 THEN Digit(n) ELSE NatToString(n \div 10) \o Digit(n % 10)

\* Display of i64
IntToString(i) == IF i < 0 THEN "-" \o NatToString(-i) ELSE NatToString(i)

\* the decimal digits of rem/den, at most `fuel` of them
RECURSIVE FracDigits(_, _, _)
FracDigits(rem, den, fuel) ==
  IF rem = 0 \/ fuel = 0 THEN ""
  ELSE Digit((rem * 10) \div den) \o FracDigits((rem * 10) % den, den, fuel - 1)

\* Display of f64: "NaN", "inf", "-inf", and a finite value without an
\* exponent and without a trailing ".0"
FloatToString(x) ==
  IF IsNaN(x) THEN "NaN"
  ELSE IF IsInf(x) THEN (IF x[2] = 1 THEN "inf" ELSE "-inf")
  ELSE (IF x[2] = -1 THEN "-" ELSE "")
       \o NatToString(x[3] \div x[4])
       \o (IF x[3] % x[4] = 0 THEN "" ELSE "." \o FracDigits(x[3] % x[4], x[4], 17))

\* Debug of Type (Display forwards to it)
RECURSIVE TypeToString(_)
RECURSIVE JoinTypes(_, _)
TypeToString(t) ==
  CASE t[1] = "Undefined" -> "undefined"
    [] t[1] = "Any" -> "any"
    [] t[1] = "Int" -> "int"
    [] t[1] = "Float" -> "float"
    [] t[1] = "Bool" -> "bool"
    [] t[1] = "String" -> "str"
    [] t[1] = "NativFunction" -> "nativ-function"
    [] t[1] = "Function" -> "function"
    [] t[1] = "Addr" -> "addr"
    [] t[1] = "Closure" -> "closure"
    [] t[1] = "Union" -> JoinTypes(t[2], 1)
    [] t[1] = "Type" -> "type"

\* the members from position i on, rendered and joined by "|"
JoinTypes(types, i) ==
  IF i > Len(types) THEN ""
  ELSE TypeToString(types[i])
       \o (IF i < Len(types) THEN "|" ELSE "")
       \o JoinTypes(types, i + 1)

\* Display of the parser's Node: the node's text
NodeToString(node) == node

\* Debug of V (Display and to_string forward to it).  ptr is the text of
\* the address the two function variants print.
VToString(self, ptr) ==
  CASE self[1] = "Null" -> "null"
    [] self[1] = "Wirldcard" -> "_"
    [] self[1] = "Int" -> IntToString(self[2])
    [] self[1] = "Float" -> FloatToString(self[2])
    [] self[1] = "Bool" -> (IF self[2] THEN "true" ELSE "false")
    [] self[1] = "String" -> self[2]
    [] self[1] = "Addr" -> "@" \o self[2]
    [] self[1] = "Closure" -> "#" \o NodeToString(self[2])
    [] self[1] = "NativFunction" -> "nativ-function:" \o ptr
    [] self[1] = "Function" -> "function:" \o ptr
    [] self[1] = "Type" -> TypeToString(self[2])

(* -------------------------------- cast -------------------------------- *)

\* the Int arm of Type::cast, with a String source converted instead of
\* falling back to Null
CastIntStringAsZero(value) ==
  CASE value[1] = "Null" -> VInt(0)
    [] value[1] = "Int" -> VInt(value[2])
    [] value[1] = "Float" -> VInt(FloatToInt(value[2]))
    [] value[1] = "Bool" -> VInt(BoolToInt(value[2]))
    [] value[1] = "String" -> VInt(0)
    [] OTHER -> VNull

\* the Int arm of Type::cast
CastInt(value) ==
  CASE value[1] = "Null" -> VInt(0)
    [] value[1] = "Int" -> VInt(value[2])
    [] value[1] = "Float" -> VInt(FloatToInt(value[2]))
    [] value[1] = "Bool" -> VInt(BoolToInt(value[2]))
    [] OTHER -> VNull

\* the Float arm of Type::cast
CastFloat(value) ==
  CASE value[1] = "Null" -> VFloat(Fin(1, 0, 1))
    [] value[1] = "Int" -> VFloat(IntToFloat(value[2]))
    [] value[1] = "Float" -> VFloat(value[2])
    [] value[1] = "Bool" -> VFloat(IntToFloat(BoolToInt(value[2])))
    [] OTHER -> VNull

\* the Bool arm of Type::cast, with a Bool source negated
CastBoolNegated(value) ==
  CASE value[1] = "Null" -> VBool(FALSE)
    [] value[1] = "Int" -> VBool(value[2] # 0)
    [] value[1] = "Float" -> VBool(~FEq(value[2], Fin(1, 0, 1)))
    [] value[1] = "Bool" -> VBool(~value[2])
    [] OTHER -> VNull

\* the Bool arm of Type::cast
CastBool(value) ==
  CASE value[1] = "Null" -> VBool(FALSE)
    [] value[1] = "Int" -> VBool(value[2] # 0)
    [] value[1] = "Float" -> VBool(~FEq(value[2], Fin(1, 0, 1)))
    [] value[1] = "Bool" -> VBool(value[2])
    [] OTHER -> VNull

\* the Type arm of Type::cast, unwrapping a Type value instead of
\* reflecting it
CastTypeUnwrapping(value) ==
  IF value[1] = "Type" THEN VType(value[2]) ELSE VType(Typ(value))

\* the Type arm of Type::cast
CastType(value) == VType(Typ(value))

\* Type::cast
Cast(self, value, ptr) ==
  CASE self[1] = "Undefined" -> VNull
    [] self[1] = "Any" -> value
    [] self[1] = "Int" -> CastInt(value)
    [] self[1] = "Float" -> CastFloat(value)
    [] self[1] = "Bool" -> CastBool(value)
    [] self[1] = "String" -> VString(VToString(value, ptr))
    [] self[1] = "Addr" -> VAddr(VToString(value, ptr))
    [] self[1] = "Type" -> CastType(value)
    [] OTHER -> VNull

(* ----------------------------- arithmetic ----------------------------- *)

Some(v) == <<"Some", v>>
None == <<"None">>
Panic == <<"Panic">>

\* an i64 `+`, `-` or `*` whose mathematical result is r: on overflow the
\* operator panics in a build with overflow checks and wraps in one without
IntResult(r, checks) ==
  IF r \in Ints THEN Some(VInt(r))
  ELSE IF checks THEN Panic
  ELSE Some(VInt(Wrap(r)))

\* V::add
Add(self, other, checks) ==
  CASE self[1] = "Int" ->
         (CASE other[1] = "Int" -> IntResult(self[2] + other[2], checks)
            [] other[1] = "Float" -> Some(VFloat(FAdd(IntToFloat(self[2]), other[2])))
            [] OTHER -> None)
    [] self[1] = "Float" ->
         (CASE other[1] = "Float" -> Some(VFloat(FAdd(self[2], other[2])))
            [] other[1] = "Int" -> Some(VFloat(FAdd(self[2], IntToFloat(other[2]))))
            [] OTHER -> None)
    [] self[1] = "String" ->
         (CASE other[1] = "String" -> Some(VString(self[2] \o other[2]))
            [] OTHER -> None)
    [] OTHER -> None

\* V::sub
Sub(self, other, checks) ==
  CASE self[1] = "Int" ->
         (CASE other[1] = "Int" -> IntResult(self[2] - other[2], checks)
            [] other[1] = "Float" -> Some(VFloat(FSub(IntToFloat(self[2]), other[2])))
            [] OTHER -> None)
    [] self[1] = "Float" ->
         (CASE other[1] = "Float" -> Some(VFloat(FSub(self[2], other[2])))
            [] other[1] = "Int" -> Some(VFloat(FSub(self[2], IntToFloat(other[2]))))
            [] OTHER -> None)
    [] OTHER -> None

\* V::mul
Mul(self, other, checks) ==
  CASE self[1] = "Int" ->
         (CASE other[1] = "Int" -> IntResult(self[2] * other[2], checks)
            [] other[1] = "Float" -> Some(VFloat(FMul(IntToFloat(self[2]), other[2])))
            [] OTHER -> None)
    [] self[1] = "Float" ->
         (CASE other[1] = "Float" -> Some(VFloat(FMul(self[2], other[2])))
            [] other[1] = "Int" -> Some(VFloat(FMul(self[2], IntToFloat(other[2]))))
            [] OTHER -> None)
    [] OTHER -> None

\* V::div: both operands are floats before the division, so no i64 operator
\* is involved
Div(self, other) ==
  CASE self[1] = "Int" ->
         (CASE other[1] = "Int" ->
                 Some(VFloat(FDiv(IntToFloat(self[2]), IntToFloat(other[2]))))
            [] other[1] = "Float" -> Some(VFloat(FDiv(IntToFloat(self[2]), other[2])))
            [] OTHER -> None)
    [] self[1] = "Float" ->
         (CASE other[1] = "Float" -> Some(VFloat(FDiv(self[2], other[2])))
            [] other[1] = "Int" -> Some(VFloat(FDiv(self[2], IntToFloat(other[2]))))
            [] OTHER -> None)
    [] OTHER -> None

(* ------------------------------ V == V -------------------------------- *)

\* the match of V::eq
MatchEq(self, other) ==
  CASE self[1] = "Null" /\ other[1] = "Null" -> TRUE
    [] self[1] = "Int" /\ other[1] = "Int" -> self[2] = other[2]
    [] self[1] = "Int" /\ other[1] = "Float" -> FEq(IntToFloat(self[2]), other[2])
    [] self[1] = "Float" /\ other[1] = "Int" -> FEq(self[2], IntToFloat(other[2]))
    [] self[1] = "Float" /\ other[1] = "Float" -> FEq(self[2], other[2])
    [] self[1] = "Bool" /\ other[1] = "Bool" -> self[2] = other[2]
    [] self[1] = "String" /\ other[1] = "String" -> self[2] = other[2]
    [] OTHER -> FALSE

\* V::eq as a derived, structural equality would extend it
ValueEqStructural(self, other) ==
  IF self[1] = "Wirldcard" THEN TRUE
  ELSE IF other[1] = "Wirldcard" THEN TRUE
  ELSE IF self[1] = other[1] /\ self[1] \in {"Addr", "Closure", "NativFunction", "Function", "Type"}
       THEN self = other
  ELSE MatchEq(self, other)

\* V::eq with the check of `other` against Wirldcard left out
ValueEqLeftWirldcardOnly(self, other) ==
  IF self[1] = "Wirldcard" THEN TRUE
  ELSE MatchEq(self, other)

\* V::eq
ValueEq(self, other) ==
  IF self[1] = "Wirldcard" THEN TRUE
  ELSE IF other[1] = "Wirldcard" THEN TRUE
  ELSE MatchEq(self, other)

(* ------------------------------ operands ------------------------------ *)

\* the sequences over S of length at most n
RECURSIVE SeqsUpTo(_, _)
SeqsUpTo(S, n) ==
  IF n = 0 THEN {<<>>}
  ELSE LET P == SeqsUpTo(S, n - 1)
       IN P \cup {Append(s, x) : s \in P, x \in S}

Members == {TyAny, TyInt, TyFloat, TyBool}

FlatUnions == {Union(s) : s \in SeqsUpTo(Members, MaxUnionLen)}

OtherUnions ==
  {Union(<<TyString, TyAddr>>),
   Union(<<TyType, TyUndefined, TyClosure>>),
   Union(<<Union(<<TyInt>>)>>),
   Union(<<TyInt, Union(<<TyFloat, TyAny>>)>>),
   Union(<<Union(<<>>), TyFunction, TyNativFunction>>)}

Types == AtomicTypes \cup FlatUnions \cup OtherUnions

Floats ==
  {NaN, Inf(1), Inf(-1), Fin(1, 0, 1), Fin(-1, 0, 1), Fin(1, 1, 2),
   Fin(1, 1, 1), Fin(-1, 3, 2), Fin(1, 7, 2), Fin(1, 100, 1)}

Strings == {"", "a", "b"}

Nodes == {"x", "y + 1"}

Ptrs == {"0x55d0c0", "0x7ffe10"}

Values ==
  {VNull, Wirldcard}
  \cup {VInt(i) : i \in Ints}
  \cup {VFloat(f) : f \in Floats}
  \cup {VBool(b) : b \in BOOLEAN}
  \cup {VString(s) : s \in Strings}
  \cup {VAddr(s) : s \in Strings}
  \cup {VClosure(n) : n \in Nodes}
  \cup {VNativFunction(<<>>, "print"), VNativFunction(<<TyAny>>, "print"),
        VNativFunction(<<TyInt, TyInt>>, "max")}
  \cup {VFunction(<<>>, "x"), VFunction(<<"x">>, "x"), VFunction(<<"x">>, "y + 1")}
  \cup {VType(t) : t \in AtomicTypes \cup OtherUnions}

(* --------------------------- the caller ------------------------------- *)

Init ==
  /\ op = "none"
  /\ args = <<>>
  /\ ret = None
  /\ overflow_checks \in BOOLEAN

TypeEqCall ==
  /\ op = "none"
  /\ \E a \in Types, b \in Types :
       /\ op' = "type_eq"
       /\ args' = <<a, b>>
       /\ ret' = TypeEq(a, b)
       /\ UNCHANGED overflow_checks

CastCall ==
  /\ op = "none"
  /\ \E t \in Types, v \in Values, ptr \in Ptrs :
       /\ op' = "cast"
       /\ args' = <<t, v>>
       /\ ret' = Cast(t, v, ptr)
       /\ UNCHANGED overflow_checks

TypCall ==
  /\ op = "none"
  /\ \E v \in Values :
       /\ op' = "typ"
       /\ args' = <<v>>
       /\ ret' = Typ(v)
       /\ UNCHANGED overflow_checks

ToStringCall ==
  /\ op = "none"
  /\ \E v \in Values, ptr \in Ptrs :
       /\ op' = "to_string"
       /\ args' = <<v>>
       /\ ret' = VToString(v, ptr)
       /\ UNCHANGED overflow_checks

AddCall ==
  /\ op = "none"
  /\ \E a \in Values, b \in Values :
       /\ op' = "add"
       /\ args' = <<a, b>>
       /\ ret' = Add(a, b, overflow_checks)
       /\ UNCHANGED overflow_checks

SubCall ==
  /\ op = "none"
  /\ \E a \in Values, b \in Values :
       /\ op' = "sub"
       /\ args' = <<a, b>>
       /\ ret' = Sub(a, b, overflow_checks)
       /\ UNCHANGED overflow_checks

MulCall ==
  /\ op = "none"
  /\ \E a \in Values, b \in Values :
       /\ op' = "mul"
       /\ args' = <<a, b>>
       /\ ret' = Mul(a, b, overflow_checks)
       /\ UNCHANGED overflow_checks

DivCall ==
  /\ op = "none"
  /\ \E a \in Values, b \in Values :
       /\ op' = "div"
       /\ args' = <<a, b>>
       /\ ret' = Div(a, b)
       /\ UNCHANGED overflow_checks

ValueEqCall ==
  /\ op = "none"
  /\ \E a \in Values, b \in Values :
       /\ op' = "value_eq"
       /\ args' = <<a, b>>
       /\ ret' = ValueEq(a, b)
       /\ UNCHANGED overflow_checks

Next ==
  \/ TypeEqCall
  \/ CastCall
  \/ TypCall
  \/ ToStringCall
  \/ AddCall
  \/ SubCall
  \/ MulCall
  \/ DivCall
  \/ ValueEqCall

Spec == Init /\ [][Next]_vars

(* ------------------------------ claims -------------------------------- *)

\* the set of the members of a Union's list
MemberSet(t) == {t[2][i] : i \in 1..Len(t[2])}

\* a Union all of whose members are unit variants other than Any
PlainUnion(t) == IsUnion(t) /\ MemberSet(t) \subseteq (AtomicTypes \ {TyAny})

StrictSubset(S, T) == S \subseteq T /\ S # T

C2_TypeEqSymmetric ==
  op = "type_eq" => ret = TypeEq(args[2], args[1])

\* the variants V::eq compares by payload, NaN excepted
Comparable(v) ==
  /\ v[1] \in {"Null", "Wirldcard", "Int", "Float", "Bool", "String"}
  /\ v[1] = "Float" => ~IsNaN(v[2])

\* C3, as stated: for every unit-variant Type t and every value v with
\* v.typ() == t, cast(t, v) equals v under V's equality.
C3_CastKeepsMatchingValue ==
  (op = "cast" /\ args[1] \in AtomicTypes /\ TypeEq(Typ(args[2]), args[1])) =>
    ValueEq(ret, args[2])

\* C3, amended: for every unit-variant Type t and every value v with
\* v.typ() == t that is a Null, Wirldcard, Int, Bool, String or a Float
\* other than NaN, cast(t, v) equals v under V's equality.
C3_CastKeepsComparableValue ==
  (op = "cast" /\ args[1] \in AtomicTypes /\ TypeEq(Typ(args[2]), args[1])
     /\ Comparable(args[2])) =>
    ValueEq(ret, args[2])

C3_Witness ==
  /\ op = "cast"
  /\ args = <<TyBool, VBool(TRUE)>>
  /\ ret = VBool(TRUE)

\* the mathematical result of the operator on two Int payloads
Exact(o, x, y) ==
  CASE o = "add" -> x + y
    [] o = "sub" -> x - y
    [] o = "mul" -> x * y

\* C4: add, sub and mul on two Ints never abort and return the Int of the
\* mathematical result reduced modulo 2^IntBits into the signed range.
C4_IntArithmeticWraps ==
  (op \in {"add", "sub", "mul"} /\ args[1][1] = "Int" /\ args[2][1] = "Int") =>
    ret = Some(VInt(Wrap(Exact(op, args[1][2], args[2][2]))))

\* C5: Wirldcard == X and X == Wirldcard are true for every value X.
C5_WirldcardEqualsEverything ==
  (op = "value_eq" /\ (args[1] = Wirldcard \/ args[2] = Wirldcard)) =>
    ret = TRUE

C5_Witness ==
  /\ op = "value_eq"
  /\ args[1][1] = "Function"
  /\ args[2] = Wirldcard
  /\ ret = TRUE

Opaque == {"Closure", "Function", "NativFunction", "Addr", "Type"}

\* C6: when neither operand is Wirldcard and at least one is a Closure,
\* Function, NativFunction, Addr or Type, a == b is false, also for a
\* value compared with itself.
C6_OpaqueVariantsNeverEqual ==
  (op = "value_eq" /\ args[1] # Wirldcard /\ args[2] # Wirldcard
     /\ (args[1][1] \in Opaque \/ args[2][1] \in Opaque)) =>
    ret = FALSE

C6_Witness ==
  /\ op = "value_eq"
  /\ args[1][1] = "Addr"
  /\ args[2] = args[1]
  /\ ret = FALSE

Numeric(v) == v[1] \in {"Int", "Float"}

\* the operand pairs the claim says the operator is defined on
Defined(o, a, b) ==
  \/ Numeric(a) /\ Numeric(b)
  \/ o = "add" /\ a[1] = "String" /\ b[1] = "String"

\* C7: add is present exactly when both operands are numeric or both are
\* String, sub, mul and div exactly when both are numeric; every other
\* combination is absent, and no combination aborts.
C7_ArithmeticDefinedness ==
  op \in {"add", "sub", "mul", "div"} =>
    IF Defined(op, args[1], args[2]) THEN ret[1] = "Some" ELSE ret = None

\* C8: on numeric operands add, sub and mul return an Int exactly when both
\* operands are Int and a Float otherwise, and div returns a Float for
\* every pair, a zero divisor included.
C8_NumericPromotion ==
  (op \in {"add", "sub", "mul", "div"} /\ Numeric(args[1]) /\ Numeric(args[2])) =>
    /\ ret[1] = "Some"
    /\ ret[2][1] = (IF op # "div" /\ args[1][1] = "Int" /\ args[2][1] = "Int"
                    THEN "Int" ELSE "Float")

Variants ==
  {"Null", "Wirldcard", "Int", "Float", "Bool", "String", "Addr", "Closure",
   "NativFunction", "Function", "Type"}

\* C9: cast always returns a value.  Targets Int, Float and Bool give Null
\* for every source but Null, Int, Float and Bool; targets NativFunction,
\* Function, Closure, Undefined and every Union give Null for every source;
\* targets String and Addr give Null for no source.
C9_CastTotalWithNullFallback ==
  op = "cast" =>
    /\ ret[1] \in Variants
    /\ (args[1] \in {TyInt, TyFloat, TyBool}
          /\ args[2][1] \notin {"Null", "Int", "Float", "Bool"}) => ret = VNull
    /\ (args[1] \in {TyNativFunction, TyFunction, TyClosure, TyUndefined}
          \/ IsUnion(args[1])) => ret = VNull
    /\ args[1] = TyString => ret[1] = "String"
    /\ args[1] = TyAddr => ret[1] = "Addr"

C9_Witness ==
  /\ op = "cast"
  /\ args = <<TyInt, VString("a")>>
  /\ ret = VNull

\* the tag the claim gives each variant
TagOf(v) ==
  CASE v[1] = "Null" -> TyUndefined
    [] v[1] = "Wirldcard" -> TyAny
    [] OTHER -> <<v[1]>>

\* C10: cast(Type, v) is a Type value, its typ() is Type, and the type it
\* carries is v's tag: Undefined for Null, Any for Wirldcard, Type for a
\* Type value, and never a Union.
C10_CastTypeReflects ==
  (op = "cast" /\ args[1] = TyType) =>
    /\ ret[1] = "Type"
    /\ Typ(ret) = TyType
    /\ ret[2] = TagOf(args[2])
    /\ ~IsUnion(ret[2])

C10_Witness ==
  /\ op = "cast"
  /\ args = <<TyType, VType(Union(<<TyString, TyAddr>>))>>
  /\ ret = VType(TyType)

====
